---------------------------- MODULE Spec2Model ----------------------------
(***************************************************************************)
(* Position-mirroring engine of kiteconnect-trading-system                 *)
(* (src/sync_operations.py): one base account's open NFO/BFO positions are *)
(* mirrored proportionally into the copy-enabled target accounts.          *)
(*                                                                         *)
(* Spec       : run_sync_operations, one action per step of the cycle,     *)
(*              with the broker filling submitted orders asynchronously.   *)
(* SpecTargets: the same cycle over a base and two copy-enabled targets,   *)
(*              for any total margins, negative ones included.             *)
(* SpecEngine : close_position_in_account / mimic_position_in_account      *)
(*              called directly on one target, over ranges of lot sizes,   *)
(*              caps, margins and quantities.                              *)
(* SpecSizing : the same calls with margins and quantities of real size.   *)
(* SpecAuto   : the AUTO branch of main_listener_loop                      *)
(*              (src/sync_listener.py) against a clock of whole seconds.   *)
(*                                                                         *)
(* Abstractions: total margins are integers; the proportional quantity     *)
(* (target/base)*abs(qty) is the exact rational, except where the double   *)
(* product is known to leave it (ProductRoundsAbove); a broker session is  *)
(* "established or not"; prices are 0 (unusable) or 1.                     *)
(***************************************************************************)
EXTENDS Integers, Sequences, FiniteSets, TLC

(***************************************************************************)
(* Bounds of the model                                                     *)
(***************************************************************************)
NumAccounts == 3
MaxCycles == 2
MaxLot == 2
MaxCap == 3
MaxQty == 3
MaxBaseQty == 2
MaxMargin == 2
MaxCalls == 2
MaxFailAt == 2

(***************************************************************************)
(* Built-in defaults of the lot/cap policy                                 *)
(***************************************************************************)
DefaultNfoLot == 65
DefaultBfoLot == 20
DefaultNfoMax == 1755
DefaultBfoMax == 2000

Accounts == 1..NumAccounts
Exchanges == {"NFO", "BFO"}
None == <<>>

(***************************************************************************)
(* str.upper() on the strings the model uses                               *)
(***************************************************************************)
Upper(s) ==
  CASE s = "nifty" -> "NIFTY"
    [] s = "banknifty" -> "BANKNIFTY"
    [] s = "sensex" -> "SENSEX"
    [] s = "infy" -> "INFY"
    [] s = "nfo" -> "NFO"
    [] s = "bfo" -> "BFO"
    [] s = "nse" -> "NSE"
    [] s = "Yes" -> "YES"
    [] s = "base" -> "BASE"
    [] OTHER -> s

Lower(s) ==
  CASE s = "NIFTY" -> "nifty"
    [] s = "BANKNIFTY" -> "banknifty"
    [] s = "SENSEX" -> "sensex"
    [] s = "INFY" -> "infy"
    [] s = "NFO" -> "nfo"
    [] s = "BFO" -> "bfo"
    [] s = "NSE" -> "nse"
    [] OTHER -> s

Abs(x) == IF x < 0 THEN -x ELSE x

RECURSIVE SumSeq(_)
SumSeq(s) == IF s = <<>> THEN 0 ELSE Head(s) + SumSeq(Tail(s))

(***************************************************************************)
(* The broker's instruments, in the order positions() lists them.  Each    *)
(* account's book maps an instrument to its net quantity; an account       *)
(* reports symbol and exchange in upper or in lower case.                  *)
(***************************************************************************)
Instruments ==
  << [tradingsymbol |-> "NIFTY", exchange |-> "NFO"],
     [tradingsymbol |-> "BANKNIFTY", exchange |-> "NFO"],
     [tradingsymbol |-> "SENSEX", exchange |-> "BFO"],
     [tradingsymbol |-> "INFY", exchange |-> "NSE"] >>

InstrIdx == 1..Len(Instruments)

VARIABLES
  config,                \* accounts_config.json: the raw account descriptors
  session,               \* session[a]: initialize_kite_quiet yields a handle
  book,                  \* book[a][i]: broker's net quantity of instrument i
  lowercase,             \* lowercase[a]: account a reports lower-case names
  margin,                \* margin[a]: net + utilised.debits at the broker
  lot_sizes,             \* lot_sizes_config.json "lot_sizes"
  max_quantity,          \* lot_sizes_config.json "max_quantity"
  pc,                    \* position in run_sync_operations
  cycle,                 \* number of the running sync cycle
  ret,                   \* return value of run_sync_operations
  accounts,              \* accounts after load_accounts_config + kite init
  base_account,          \* index of the resolved base account, 0 if none
  base_positions,        \* get_base_account_positions(base_account)
  base_fetch_failed,     \* kite.positions() raised for the base account
  base_total_margin,     \* get_total_margin(base_account), None if unknown
  target_accounts,       \* list of target account indices
  tIdx,                  \* index of the current target in target_accounts
  target_total_margin,   \* get_total_margin(target_account)
  target_open_positions, \* get_target_account_open_positions(target)
  positions_to_close,    \* stray positions of the current target
  cIdx,                  \* next stray position to close
  mIdx,                  \* next base position to mirror
  orders,                \* every order accepted by place_order, in order
  nfilled,               \* orders[1..nfilled] are reflected in the books
  trades,                \* every close/mimic call, with what it computed
  visited,               \* every iteration begun of the loop over the targets
  trading_mechanism,     \* "trading_mechanism" of accounts_config.json
  now,                   \* the wall clock, in whole seconds
  current_time,          \* datetime.now() as read by the latest iteration
  branch,                \* what the latest iteration of the loop did
  poll_seconds,          \* seconds between two polls of the listener
  first_auto_trigger_done,  \* the startup sync of AUTO mode was fired
  last_auto_trigger_minute, \* minute of the hour of the last AUTO sync
  fired,                 \* every run_sync call of the listener, in order
  worksheet,             \* the listener holds a worksheet of the Google Sheet
  trigger_col,           \* find_trigger_column found the "Sync Trigger" column
  flags,                 \* flags[r]: the trigger cell of sheet row r
  row_num,               \* row returned by the latest check_trigger
  trigger_value,         \* cell value returned by the latest check_trigger
  last_trigger_time,     \* time.time() at the last trigger acted on
  last_trigger_row,      \* row of the last trigger acted on
  sheet_ops,             \* the kinds of calls made on the Google Sheet
  clears                 \* every clear_trigger call, in order

vars ==
  << config, session, book, lowercase, margin, lot_sizes, max_quantity, pc,
     cycle, ret, accounts, base_account, base_positions, base_fetch_failed,
     base_total_margin, target_accounts, tIdx, target_total_margin,
     target_open_positions, positions_to_close, cIdx, mIdx, orders, nfilled,
     trades, visited, trading_mechanism, now, current_time, branch,
     poll_seconds, first_auto_trigger_done, last_auto_trigger_minute, fired,
     worksheet, trigger_col, flags, row_num, trigger_value, last_trigger_time,
     last_trigger_row, sheet_ops, clears >>

sheetVars ==
  << worksheet, trigger_col, flags, row_num, trigger_value, last_trigger_time,
     last_trigger_row, sheet_ops, clears >>

listenerVars ==
  << trading_mechanism, now, current_time, branch, poll_seconds,
     first_auto_trigger_done, last_auto_trigger_minute, fired, sheetVars >>

brokerVars == << config, session, lowercase, margin, lot_sizes, max_quantity >>


(***************************************************************************)
(* Broker gateway                                                          *)
(***************************************************************************)
CaseOf(a, s) == IF lowercase[a] THEN Lower(s) ELSE s

\* kite.positions()['net'] of account a
NetPositions(a) ==
  [i \in InstrIdx |->
     [tradingsymbol |-> CaseOf(a, Instruments[i].tradingsymbol),
      exchange |-> CaseOf(a, Instruments[i].exchange),
      quantity |-> book[a][i]]]

IsOpenDerivative(pos) ==
  pos.quantity # 0 /\ Upper(pos.exchange) \in {"NFO", "BFO"}

\* positions_ok = FALSE: kite.positions() raised
get_base_account_positions(a, positions_ok) ==
  IF ~accounts[a].kite THEN <<>>
  ELSE IF ~positions_ok THEN <<>>
  ELSE SelectSeq(NetPositions(a), IsOpenDerivative)

get_target_account_open_positions(a, positions_ok) ==
  IF ~accounts[a].kite THEN <<>>
  ELSE IF ~positions_ok THEN <<>>
  ELSE SelectSeq(NetPositions(a), IsOpenDerivative)

\* margins_ok = FALSE: kite.margins() raised or a field was not numeric
get_total_margin(a, margins_ok) ==
  IF ~accounts[a].kite THEN None
  ELSE IF ~margins_ok THEN None
  ELSE << margin[a] >>

ValidMargin(m) == m # None /\ m[1] # 0 /\ m[1] > 0

(***************************************************************************)
(* Lot & caps policy                                                       *)
(***************************************************************************)
NFO_LOT_SIZE == lot_sizes["NFO"]
BFO_LOT_SIZE == lot_sizes["BFO"]
NFO_MAX_QUANTITY == max_quantity["NFO"]
BFO_MAX_QUANTITY == max_quantity["BFO"]

_get_max_quantity(exchange) ==
  IF Upper(exchange) = "NFO" THEN NFO_MAX_QUANTITY ELSE BFO_MAX_QUANTITY

\* the quotient rounded down
Floor(num, den) == num \div den

\* math.ceil(num / den) for num > 0, den > 0
Ceil(num, den) == (num + den - 1) \div den

\* round_to_lot_size(quantity, exchange) for the quantity num / den, den > 0,
\* or, with `above`, for the double next above the integer num / den
round_to_lot_size(num, den, above, exchange) ==
  LET lot_size == IF Upper(exchange) = "NFO" THEN NFO_LOT_SIZE ELSE BFO_LOT_SIZE
  IN  IF lot_size <= 0 THEN 0
      ELSE IF num <= 0 THEN 0
      ELSE IF above THEN (num \div (den * lot_size) + 1) * lot_size
      ELSE Ceil(num, den * lot_size) * lot_size

\* (target_total_margin / base_total_margin) * abs(base_quantity) is
\* evaluated in IEEE-754 doubles.  TRUE when the exact product is an integer
\* and the double product is the next double above it: of the inputs the
\* initial states draw from, that is 7000000 / 3000000 * 195
\* = 455.00000000000006.  For every other input of the model the double
\* product, where it differs from the exact one, rounds to the same lot.
ProductRoundsAbove(target_margin, base_margin, quantity) ==
  << target_margin, base_margin, quantity >> \in {<< 7000000, 3000000, 195 >>}

(***************************************************************************)
(* _place_market_order_recursive: the quantities it passes to place_order, *)
(* in order, when no submission raises.                                    *)
(***************************************************************************)
\* one place_order call for the whole quantity
NoSplit(order_qty, max_qty) ==
  IF order_qty <= 0 THEN <<>> ELSE << order_qty >>

RECURSIVE _place_market_order_recursive(_, _)
_place_market_order_recursive(order_qty, max_qty) ==
  IF order_qty <= 0 THEN <<>>
  ELSE IF order_qty <= max_qty THEN << order_qty >>
  ELSE << max_qty >> \o _place_market_order_recursive(order_qty - max_qty, max_qty)

\* the chunks after the refused one are submitted all the same
AcceptedSkippingRefused(chunks, fail) ==
  IF fail = 0 \/ fail > Len(chunks) THEN chunks
  ELSE SubSeq(chunks, 1, fail - 1) \o SubSeq(chunks, fail + 1, Len(chunks))

\* fail = k > 0: the k-th place_order call raises; fail = 0: none does.
\* The chunks before the failing one stay placed.
Accepted(chunks, fail) ==
  IF fail = 0 \/ fail > Len(chunks) THEN chunks ELSE SubSeq(chunks, 1, fail - 1)

Raised(chunks, fail) == fail # 0 /\ fail <= Len(chunks)

\* last_price of the position, else the quote's last_price (0: none usable)
ResolveLtp(last_price, quote) == IF last_price <= 0 THEN quote ELSE last_price


(***************************************************************************)
(* Position mirroring engine.  Each operator returns what the call         *)
(* computed: its return value, the trade it decided on and the chunks      *)
(* place_order accepted.                                                   *)
(***************************************************************************)
NoTrade(result, why) ==
  [ret |-> result, exit |-> why, transaction_type |-> "", order_qty |-> 0,
   max_qty |-> 0, accepted |-> <<>>, current_qty |-> 0,
   intended_qty_signed |-> 0, delta_qty |-> 0]

close_position_in_account(position, a, last_price, quote, fail) ==
  LET symbol == position.tradingsymbol
      exchange == Upper(position.exchange)
      current_qty == position.quantity
      transaction_type == IF current_qty > 0 THEN "SELL" ELSE "BUY"
      order_qty == Abs(current_qty)
      order_qty_rounded == round_to_lot_size(order_qty, 1, FALSE, exchange)
      ltp == ResolveLtp(last_price, quote)
      chunks == _place_market_order_recursive(order_qty_rounded,
                                              _get_max_quantity(exchange))
      placed == [NoTrade(FALSE, "order")
                   EXCEPT !.transaction_type = transaction_type,
                          !.order_qty = order_qty_rounded,
                          !.max_qty = _get_max_quantity(exchange),
                          !.current_qty = current_qty,
                          !.accepted = Accepted(chunks, fail)]
  IN  IF ~accounts[a].kite THEN NoTrade(FALSE, "no_kite")
      ELSE IF symbol = "" \/ exchange = "" \/ current_qty = 0
        THEN NoTrade(FALSE, "no_position")
      ELSE IF order_qty_rounded = 0 THEN NoTrade(TRUE, "too_small")
      ELSE IF ltp <= 0 THEN NoTrade(FALSE, "no_ltp")
      ELSE IF Raised(chunks, fail) THEN placed
      ELSE IF Accepted(chunks, fail) = <<>> THEN placed
      ELSE [placed EXCEPT !.ret = TRUE]

\* positions_ok = FALSE: kite.positions() raised
get_current_position_quantity(a, symbol, exchange, positions_ok) ==
  LET net_positions == NetPositions(a)
      hits == {i \in DOMAIN net_positions :
                 /\ Upper(net_positions[i].tradingsymbol) = Upper(symbol)
                 /\ Upper(net_positions[i].exchange) = Upper(exchange)}
      first == CHOOSE i \in hits : \A j \in hits : i <= j
  IN  IF ~positions_ok THEN 0
      ELSE IF hits = {} THEN 0
      ELSE net_positions[first].quantity

\* trades whenever the target is not exactly at the intended quantity
SkipMirrorOnlyAtZero(delta_qty, lot_size) == delta_qty = 0

SkipMirrorBelowLot(delta_qty, lot_size) == Abs(delta_qty) < lot_size

\* sells to raise the position and buys to lower it
TransactionTypeInverted(delta_qty_rounded) ==
  IF delta_qty_rounded > 0 THEN "SELL" ELSE "BUY"

\* transaction_type of mimic_position_in_account
TransactionType(delta_qty_rounded) ==
  IF delta_qty_rounded > 0 THEN "BUY" ELSE "SELL"

\* the intended quantity is taken long whatever the base holds
BaseSignAlwaysLong(base_quantity) == 1

\* base_sign of mimic_position_in_account
BaseSign(base_quantity) == IF base_quantity >= 0 THEN 1 ELSE -1

mimic_position_in_account(base_position, a, base_margin, target_margin, positions_ok, last_price, quote, fail) ==
  LET copy_trades == Upper(accounts[a].copy_trades)
      symbol == base_position.tradingsymbol
      exchange == Upper(base_position.exchange)
      base_quantity == base_position.quantity
      intended_qty ==
        IF ValidMargin(base_margin)
          THEN round_to_lot_size(target_margin[1] * Abs(base_quantity),
                 base_margin[1],
                 ProductRoundsAbove(target_margin[1], base_margin[1],
                                    Abs(base_quantity)),
                 exchange)
          ELSE round_to_lot_size(0, 1, FALSE, exchange)
      current_qty == get_current_position_quantity(a, symbol, exchange, positions_ok)
      base_sign == BaseSign(base_quantity)
      intended_qty_signed == intended_qty * base_sign
      delta_qty == intended_qty_signed - current_qty
      lot_size == IF exchange = "NFO" THEN NFO_LOT_SIZE ELSE BFO_LOT_SIZE
      rounded == round_to_lot_size(Abs(delta_qty), 1, FALSE, exchange)
      delta_qty_rounded == IF delta_qty < 0 THEN -rounded ELSE rounded
      transaction_type == TransactionType(delta_qty_rounded)
      order_qty == Abs(delta_qty_rounded)
      ltp == ResolveLtp(last_price, quote)
      chunks == _place_market_order_recursive(order_qty, _get_max_quantity(exchange))
      computed == [NoTrade(TRUE, "no_trade")
                     EXCEPT !.current_qty = current_qty,
                            !.intended_qty_signed = intended_qty_signed,
                            !.delta_qty = delta_qty]
      placed == [computed EXCEPT !.ret = FALSE, !.exit = "order",
                                 !.transaction_type = transaction_type,
                                 !.order_qty = order_qty,
                                 !.max_qty = _get_max_quantity(exchange),
                                 !.accepted = Accepted(chunks, fail)]
  IN  IF copy_trades # "YES" THEN NoTrade(FALSE, "no_copy")
      ELSE IF ~accounts[a].kite THEN NoTrade(FALSE, "no_kite")
      ELSE IF symbol = "" \/ exchange = "" \/ base_quantity = 0
        THEN NoTrade(FALSE, "no_position")
      ELSE IF intended_qty = 0 THEN NoTrade(FALSE, "no_intended")
      ELSE IF SkipMirrorBelowLot(delta_qty, lot_size) THEN computed
      ELSE IF delta_qty_rounded = 0 THEN computed
      ELSE IF ltp <= 0 THEN [computed EXCEPT !.ret = FALSE, !.exit = "no_ltp"]
      ELSE IF Raised(chunks, fail) THEN placed
      ELSE IF Accepted(chunks, fail) = <<>> THEN placed
      ELSE [placed EXCEPT !.ret = TRUE]

\* The place_order calls that were accepted, as entries of the order log
OrderEntries(a, position, result, tag, tradeNo) ==
  [k \in 1..Len(result.accepted) |->
     [account |-> a, exchange |-> Upper(position.exchange),
      tradingsymbol |-> position.tradingsymbol,
      transaction_type |-> result.transaction_type,
      quantity |-> result.accepted[k], tag |-> tag, slice_index |-> k,
      cycle |-> cycle, trade |-> tradeNo]]

TradeEntry(a, position, result, kind) ==
  [account |-> a, cycle |-> cycle, kind |-> kind, position |-> position,
   result |-> result, read_ok |-> TRUE, pending |-> Len(orders) - nfilled]


(***************************************************************************)
(* Account registry and target selection                                   *)
(***************************************************************************)
load_accounts_config(cfg) ==
  LET marked(a) == Upper(cfg[a].copy_trades) = "BASE" \/ cfg[a].is_base_account
      base_account_found == \E a \in DOMAIN cfg : marked(a)
  IN  [a \in DOMAIN cfg |->
         [copy_trades |-> cfg[a].copy_trades,
          is_base_account |-> marked(a) \/ (~base_account_found /\ a = 1),
          kite |-> session[a]]]

\* first account marked base, whether or not it has a session
FirstMarkedBase(accs) ==
  LET marked == {a \in DOMAIN accs : accs[a].is_base_account}
  IN  IF marked = {} THEN 0 ELSE CHOOSE a \in marked : \A b \in marked : a <= b

\* first account marked base that has a session; 0 if there is none
ResolveBaseAccount(accs) ==
  LET found == {a \in DOMAIN accs : accs[a].is_base_account /\ accs[a].kite}
  IN  IF found = {} THEN 0 ELSE CHOOSE a \in found : \A b \in found : a <= b

\* every account with a session that is not marked base
IsTargetIgnoringCopyFlag(acc) == ~acc.is_base_account /\ acc.kite

\* every copy-enabled account with a session, marked base or not
IsTargetDespiteBaseMark(acc) == acc.kite /\ Upper(acc.copy_trades) = "YES"

IsTarget(acc) ==
  ~acc.is_base_account /\ acc.kite /\ Upper(acc.copy_trades) = "YES"

\* the targets, last of the registry first
TargetAccountsReversed(accs) ==
  LET found == SelectSeq([a \in 1..Len(accs) |-> a], LAMBDA a : IsTarget(accs[a]))
  IN  [k \in 1..Len(found) |-> found[Len(found) + 1 - k]]

TargetAccounts(accs) ==
  SelectSeq([a \in 1..Len(accs) |-> a], LAMBDA a : IsTarget(accs[a]))

\* compares the names as the broker spelled them
PositionKeyCaseSensitive(pos) == << pos.exchange, pos.tradingsymbol >>

PositionKey(pos) == << Upper(pos.exchange), Upper(pos.tradingsymbol) >>

\* base_position_keys of run_sync_operations
BasePositionKeys(bps) ==
  {PositionKey(bps[i]) : i \in {j \in DOMAIN bps :
      Upper(bps[j].tradingsymbol) # "" /\ Upper(bps[j].exchange) # ""}}

PositionsToClose(bps, tops) ==
  LET stray(pos) ==
        /\ Upper(pos.tradingsymbol) # "" /\ Upper(pos.exchange) # ""
        /\ (bps = <<>> \/ PositionKey(pos) \notin BasePositionKeys(bps))
  IN  SelectSeq(tops, stray)

CurrentTarget == target_accounts[tIdx]

\* the mirror pass may start once one stray position was attempted
CloseLoopBreaksAfterFirst == cIdx > 1 \/ positions_to_close = <<>>

\* the close loop has run over every stray position
ClosePassDone == cIdx > Len(positions_to_close)

\* the mirror pass runs whenever the base holds positions
MirrorPassRunsWithAnyMargin == base_positions # <<>>

\* "if base_positions and base_total_margin and base_total_margin > 0"
MirrorPassRuns == base_positions # <<>> /\ ValidMargin(base_total_margin)

\* the instrument an accepted order trades
InstrumentOf(o) ==
  CHOOSE i \in InstrIdx :
    /\ Instruments[i].tradingsymbol = Upper(o.tradingsymbol)
    /\ Instruments[i].exchange = Upper(o.exchange)

SignedQty(o) == IF o.transaction_type = "BUY" THEN o.quantity ELSE -o.quantity


(***************************************************************************)
(* Initial states of a sync cycle                                          *)
(***************************************************************************)
AccountConfigs ==
  { [copy_trades |-> "BASE", is_base_account |-> FALSE],
    [copy_trades |-> "Yes", is_base_account |-> FALSE],
    [copy_trades |-> "YES", is_base_account |-> TRUE],
    [copy_trades |-> "NO", is_base_account |-> FALSE] }

\* quantities an account may hold of each instrument
Holdings ==
  << {0, 130}, {0, -10}, {0, 4010}, {10} >>

NoBook == [i \in InstrIdx |-> 0]

Books ==
  {<< n, b, s, e >> : n \in Holdings[1], b \in Holdings[2],
                      s \in Holdings[3], e \in Holdings[4]}

\* the book account a holds when the registry is what varies
RegistryBook(a) ==
  CASE a % 3 = 1 -> << 130, 0, 0, 10 >>
    [] a % 3 = 2 -> << 0, -10, 0, 10 >>
    [] OTHER -> << -65, 0, 40, 10 >>

\* a base account, one copy-enabled target, the other accounts not copied
FixedRegistry ==
  [a \in Accounts |->
     [copy_trades |-> IF a = 1 THEN "BASE" ELSE IF a = 2 THEN "YES" ELSE "NO",
      is_base_account |-> FALSE]]

DefaultLotSizes == [e \in Exchanges |-> IF e = "NFO" THEN DefaultNfoLot ELSE DefaultBfoLot]

DefaultMaxQuantity == [e \in Exchanges |-> IF e = "NFO" THEN DefaultNfoMax ELSE DefaultBfoMax]

Idle ==
  /\ ret = FALSE
  /\ accounts = <<>>
  /\ base_account = 0
  /\ base_positions = <<>>
  /\ base_fetch_failed = FALSE
  /\ base_total_margin = None
  /\ target_accounts = <<>>
  /\ tIdx = 1
  /\ target_total_margin = None
  /\ target_open_positions = <<>>
  /\ positions_to_close = <<>>
  /\ cIdx = 1
  /\ mIdx = 1

InitPolicy ==
  /\ lot_sizes = DefaultLotSizes
  /\ max_quantity = DefaultMaxQuantity

\* time.sleep(1) of the AUTO and BUTTON BASED branches of the listener
AutoPollSeconds == 1

\* rows of the sheet that check_trigger reads: data_start_row onwards
MaxRows == 2
DataStartRow == 8
Rows == DataStartRow..(DataStartRow + MaxRows - 1)

\* no worksheet is held and no trigger was acted on
SheetUnused ==
  /\ worksheet = FALSE
  /\ trigger_col = FALSE
  /\ flags = [r \in Rows |-> ""]
  /\ row_num = None
  /\ trigger_value = None
  /\ last_trigger_time = None
  /\ last_trigger_row = None
  /\ sheet_ops = {}
  /\ clears = <<>>

\* the listener before its loop has run
ListenerAtStartup ==
  /\ trading_mechanism = "BUTTON BASED"
  /\ now = 0
  /\ current_time = None
  /\ branch = "none"
  /\ poll_seconds = AutoPollSeconds
  /\ first_auto_trigger_done = FALSE
  /\ last_auto_trigger_minute = None
  /\ fired = <<>>
  /\ SheetUnused

\* no sync has run yet
CycleAtStart ==
  /\ pc = "start"
  /\ cycle = 1
  /\ orders = <<>>
  /\ nfilled = 0
  /\ trades = <<>>
  /\ visited = <<>>
  /\ Idle

InitRun ==
  /\ CycleAtStart
  /\ ListenerAtStartup

\* any registry, any sessions; fixed books
Init ==
  /\ config \in [Accounts -> AccountConfigs]
  /\ session \in [Accounts -> BOOLEAN]
  /\ lowercase = [a \in Accounts |-> a = 2]
  /\ margin \in [Accounts -> 0..1]
  /\ \A a \in Accounts : ~session[a] => margin[a] = 0
  /\ book = [a \in Accounts |-> RegistryBook(a)]
  /\ InitPolicy
  /\ InitRun

\* fixed registry; any books and margins of the base and the target
InitCycle ==
  /\ config = FixedRegistry
  /\ session = [a \in Accounts |-> TRUE]
  /\ lowercase \in [Accounts -> BOOLEAN]
  /\ \A a \in Accounts : a # 1 => ~lowercase[a]
  /\ margin \in [Accounts -> 0..MaxMargin]
  /\ \A a \in Accounts : a > 2 => margin[a] = 0
  /\ book \in [Accounts -> Books \cup {NoBook}]
  /\ \A a \in Accounts : IF a > 2 THEN book[a] = NoBook ELSE book[a] \in Books
  /\ InitPolicy
  /\ InitRun

\* fixed registry; the base holds NIFTY, the target any quantity of it
InitRerun ==
  /\ config = FixedRegistry
  /\ session = [a \in Accounts |-> TRUE]
  /\ lowercase = [a \in Accounts |-> FALSE]
  /\ margin \in [Accounts -> 0..MaxMargin]
  /\ \A a \in Accounts : IF a > 2 THEN margin[a] = 0 ELSE margin[a] > 0
  /\ \E b \in {130, -65}, t \in {0, 65, -10} :
       book = [a \in Accounts |->
                 IF a = 1 THEN << b, 0, 0, 10 >>
                 ELSE IF a = 2 THEN << t, 0, 0, 10 >> ELSE NoBook]
  /\ InitPolicy
  /\ InitRun

\* a base account followed by two copy-enabled targets
TwoTargetRegistry ==
  [a \in Accounts |->
     [copy_trades |-> IF a = 1 THEN "BASE" ELSE IF a = 2 THEN "YES"
                      ELSE IF a = 3 THEN "Yes" ELSE "NO",
      is_base_account |-> FALSE]]

\* total margins as the broker may report them, negative ones included
ReportedMargins == -1..1

\* two targets after the base; any total margin in each account
InitTargets ==
  /\ config = TwoTargetRegistry
  /\ session = [a \in Accounts |-> TRUE]
  /\ lowercase = [a \in Accounts |-> a = 2]
  /\ margin \in [Accounts -> ReportedMargins]
  /\ \A a \in Accounts : a > 3 => margin[a] = 0
  /\ book = [a \in Accounts |-> RegistryBook(a)]
  /\ InitPolicy
  /\ InitRun

(***************************************************************************)
(* run_sync_operations, step by step                                       *)
(***************************************************************************)
Prices == {0, 1}
FailAt == 0..MaxFailAt

cycleVars ==
  << base_account, base_positions, base_fetch_failed, base_total_margin,
     target_accounts, tIdx, target_total_margin, target_open_positions,
     positions_to_close, cIdx, mIdx >>

\* load_accounts_config succeeded; every account gets its kite handle
LoadAccounts ==
  /\ pc = "start"
  /\ accounts' = load_accounts_config(config)
  /\ pc' = "resolve"
  /\ UNCHANGED << listenerVars, visited, brokerVars, book, cycle, ret, cycleVars, orders, nfilled, trades >>

\* accounts_config.json is missing or unreadable
LoadAccountsFails ==
  /\ pc = "start"
  /\ ret' = FALSE
  /\ pc' = "done"
  /\ UNCHANGED << listenerVars, visited, brokerVars, book, cycle, accounts, cycleVars, orders, nfilled, trades >>

ResolveBase ==
  /\ pc = "resolve"
  /\ base_account' = ResolveBaseAccount(accounts)
  /\ IF base_account' = 0
       THEN ret' = FALSE /\ pc' = "done"
       ELSE ret' = ret /\ pc' = "fetch"
  /\ UNCHANGED << listenerVars, visited, brokerVars, book, cycle, accounts, base_positions,
                  base_fetch_failed, base_total_margin, target_accounts, tIdx,
                  target_total_margin, target_open_positions,
                  positions_to_close, cIdx, mIdx, orders, nfilled, trades >>

\* base positions, the target list and the base account's total margin
FetchBase ==
  /\ pc = "fetch"
  /\ \E positions_ok \in BOOLEAN, margins_ok \in BOOLEAN :
       /\ base_positions' = get_base_account_positions(base_account, positions_ok)
       /\ base_fetch_failed' = (accounts[base_account].kite /\ ~positions_ok)
       /\ target_accounts' = TargetAccounts(accounts)
       /\ base_total_margin' =
            IF target_accounts' = <<>> THEN None
            ELSE get_total_margin(base_account, margins_ok)
  /\ tIdx' = 1
  /\ pc' = "target"
  /\ UNCHANGED << listenerVars, visited, brokerVars, book, cycle, ret, accounts, base_account,
                  target_total_margin, target_open_positions,
                  positions_to_close, cIdx, mIdx, orders, nfilled, trades >>

\* the loop over the targets ends at the first target that had a failure
NextTargetUnlessFailed(succeeded) ==
  IF succeeded THEN tIdx + 1 ELSE Len(target_accounts) + 1

\* "continue" and the bottom of the loop body: on to the next target,
\* whatever happened in this one
NextTarget(succeeded) == tIdx + 1

\* every close/mimic call made for the current target returned True
TargetSucceeded ==
  \A k \in DOMAIN trades :
    (trades[k].cycle = cycle /\ trades[k].account = CurrentTarget)
      => trades[k].result.ret

\* a target is skipped only when its margin could not be read
SkipTargetOnlyWhenUnavailable(m) == m = None

\* "if not target_total_margin or target_total_margin <= 0: continue"
SkipTarget(m) == ~ValidMargin(m)

\* top of the loop over the targets: margin, open positions, stray positions
BeginTarget ==
  /\ pc = "target"
  /\ tIdx <= Len(target_accounts)
  /\ \E margins_ok \in BOOLEAN, positions_ok \in BOOLEAN :
       /\ target_total_margin' = get_total_margin(CurrentTarget, margins_ok)
       /\ visited' = Append(visited,
            [account |-> CurrentTarget, cycle |-> cycle,
             total_margin |-> target_total_margin',
             positions_read |-> ~SkipTarget(target_total_margin') /\ positions_ok,
             synced |-> ValidMargin(target_total_margin')])
       /\ IF SkipTarget(target_total_margin')
            THEN /\ tIdx' = NextTarget(FALSE)
                 /\ pc' = "target"
                 /\ UNCHANGED << target_open_positions, positions_to_close >>
            ELSE /\ target_open_positions' =
                      get_target_account_open_positions(CurrentTarget, positions_ok)
                 /\ positions_to_close' =
                      PositionsToClose(base_positions, target_open_positions')
                 /\ tIdx' = tIdx
                 /\ pc' = "sync"
  /\ cIdx' = 1
  /\ mIdx' = 1
  /\ UNCHANGED << listenerVars, brokerVars, book, cycle, ret, accounts, base_account,
                  base_positions, base_fetch_failed, base_total_margin,
                  target_accounts, orders, nfilled, trades >>

\* one iteration of the loop over positions_to_close
ClosePosition ==
  /\ pc = "sync"
  /\ cIdx <= Len(positions_to_close)
  /\ \E last_price \in Prices, quote \in Prices, fail \in FailAt :
       LET position == positions_to_close[cIdx]
           result == close_position_in_account(position, CurrentTarget,
                                               last_price, quote, fail)
       IN  /\ orders' = orders \o OrderEntries(CurrentTarget, position, result,
                                               "close", Len(trades) + 1)
           /\ trades' = Append(trades, TradeEntry(CurrentTarget, position,
                                                  result, "close"))
  /\ cIdx' = cIdx + 1
  /\ UNCHANGED << listenerVars, visited, brokerVars, book, pc, cycle, ret, accounts, base_account,
                  base_positions, base_fetch_failed, base_total_margin,
                  target_accounts, tIdx, target_total_margin,
                  target_open_positions, positions_to_close, mIdx, nfilled >>

\* the mirror pass of a target ends at the first base position that failed
NextBasePositionUnlessFailed(succeeded) ==
  IF succeeded THEN mIdx + 1 ELSE Len(base_positions) + 1

\* bottom of the loop over base_positions: on to the next base position,
\* whatever mimic_position_in_account returned
NextBasePosition(succeeded) == mIdx + 1

\* one iteration of the loop over base_positions
MimicPosition ==
  /\ pc = "sync"
  /\ ClosePassDone
  /\ MirrorPassRuns
  /\ mIdx <= Len(base_positions)
  /\ \E positions_ok \in BOOLEAN, last_price \in Prices, quote \in Prices,
        fail \in FailAt :
       LET position == base_positions[mIdx]
           result == mimic_position_in_account(position, CurrentTarget,
                       base_total_margin, target_total_margin, positions_ok,
                       last_price, quote, fail)
       IN  /\ orders' = orders \o OrderEntries(CurrentTarget, position, result,
                                               "mimic", Len(trades) + 1)
           /\ trades' = Append(trades,
                 [TradeEntry(CurrentTarget, position, result, "mimic")
                    EXCEPT !.read_ok = positions_ok])
           /\ mIdx' = NextBasePosition(result.ret)
  /\ UNCHANGED << listenerVars, visited, brokerVars, book, pc, cycle, ret, accounts, base_account,
                  base_positions, base_fetch_failed, base_total_margin,
                  target_accounts, tIdx, target_total_margin,
                  target_open_positions, positions_to_close, cIdx, nfilled >>

\* bottom of the loop over the targets
EndTarget ==
  /\ pc = "sync"
  /\ ClosePassDone
  /\ ~MirrorPassRuns \/ mIdx > Len(base_positions)
  /\ tIdx' = NextTarget(TargetSucceeded)
  /\ pc' = "target"
  /\ UNCHANGED << listenerVars, visited, brokerVars, book, cycle, ret, accounts, base_account,
                  base_positions, base_fetch_failed, base_total_margin,
                  target_accounts, target_total_margin, target_open_positions,
                  positions_to_close, cIdx, mIdx, orders, nfilled, trades >>

\* the positions report and "return True"
Report ==
  /\ pc = "target"
  /\ tIdx > Len(target_accounts)
  /\ ret' = TRUE
  /\ pc' = "done"
  /\ UNCHANGED << listenerVars, visited, brokerVars, book, cycle, accounts, cycleVars, orders, nfilled, trades >>

\* the broker executes the oldest order that is still open
Fill ==
  /\ nfilled < Len(orders)
  /\ LET o == orders[nfilled + 1]
     IN  book' = [book EXCEPT ![o.account][InstrumentOf(o)] = @ + SignedQty(o)]
  /\ nfilled' = nfilled + 1
  /\ UNCHANGED << listenerVars, visited, brokerVars, pc, cycle, ret, accounts, cycleVars, orders, trades >>

\* the listener triggers the next sync; nothing is kept from the last one
NextCycle ==
  /\ pc = "done"
  /\ cycle < MaxCycles
  /\ cycle' = cycle + 1
  /\ pc' = "start"
  /\ ret' = FALSE
  /\ accounts' = <<>>
  /\ base_account' = 0
  /\ base_positions' = <<>>
  /\ base_fetch_failed' = FALSE
  /\ base_total_margin' = None
  /\ target_accounts' = <<>>
  /\ tIdx' = 1
  /\ target_total_margin' = None
  /\ target_open_positions' = <<>>
  /\ positions_to_close' = <<>>
  /\ cIdx' = 1
  /\ mIdx' = 1
  /\ UNCHANGED << listenerVars, visited, brokerVars, book, orders, nfilled, trades >>

(***************************************************************************)
(* The sync-now entry point and the listener's run_sync                    *)
(***************************************************************************)
\* python sync_operations.py: the exit status of the process after
\* run_sync_operations() returned `result`; the script drops the result
\* and runs off its end
SyncNowExitCode(result) == 0

\* run_sync of the listener: subprocess.run(...).returncode == 0
run_sync(returncode) == returncode = 0

Next ==
  \/ LoadAccounts
  \/ LoadAccountsFails
  \/ ResolveBase
  \/ FetchBase
  \/ BeginTarget
  \/ ClosePosition
  \/ MimicPosition
  \/ EndTarget
  \/ Report

NextRerun ==
  \/ Next
  \/ Fill
  \/ NextCycle

Spec == Init /\ [][Next]_vars

SpecCycle == InitCycle /\ [][Next]_vars

SpecTargets == InitTargets /\ [][Next]_vars

SpecRerun == InitRerun /\ [][NextRerun]_vars


(***************************************************************************)
(* The engine called directly: close_position_in_account and               *)
(* mimic_position_in_account on the NIFTY position of one target, for any  *)
(* lot size, cap, margins and quantities within the bounds.                *)
(***************************************************************************)
\* the copy-enabled account of the fixed registry
EngineTarget == CHOOSE a \in Accounts : FixedRegistry[a].copy_trades = "YES"

\* the engine is called with the handles and margins of the fixed registry
EngineCalled ==
  /\ pc = "engine"
  /\ cycle = 1
  /\ orders = <<>>
  /\ nfilled = 0
  /\ trades = <<>>
  /\ visited = <<>>
  /\ ListenerAtStartup
  /\ ret = FALSE
  /\ accounts = load_accounts_config(config)
  /\ base_account = 1
  /\ base_positions = <<>>
  /\ base_fetch_failed = FALSE
  /\ base_total_margin = << margin[1] >>
  /\ target_accounts = << EngineTarget >>
  /\ tIdx = 1
  /\ target_total_margin = << margin[EngineTarget] >>
  /\ target_open_positions = <<>>
  /\ positions_to_close = <<>>
  /\ cIdx = 1
  /\ mIdx = 1

InitEngine ==
  /\ config = FixedRegistry
  /\ session = [a \in Accounts |-> TRUE]
  /\ lowercase = [a \in Accounts |-> FALSE]
  /\ \E bm \in 0..MaxMargin, tm \in 1..MaxMargin :
       margin = [a \in Accounts |-> IF a = 1 THEN bm ELSE IF a = 2 THEN tm ELSE 0]
  /\ \E b \in (-MaxBaseQty..MaxBaseQty) \ {0}, t \in -MaxQty..MaxQty :
       book = [a \in Accounts |->
                 IF a = 1 THEN << b, 0, 0, 0 >>
                 ELSE IF a = 2 THEN << t, 0, 0, 0 >> ELSE NoBook]
  /\ \E lot \in 0..MaxLot :
       lot_sizes = [e \in Exchanges |-> IF e = "NFO" THEN lot ELSE DefaultBfoLot]
  /\ \E cap \in 1..MaxCap :
       max_quantity = [e \in Exchanges |-> IF e = "NFO" THEN cap ELSE DefaultBfoMax]
  /\ EngineCalled

\* mimic_position_in_account(base NIFTY position, target, margins)
EngineMimic ==
  /\ pc = "engine"
  /\ Len(trades) < MaxCalls
  /\ \E positions_ok \in BOOLEAN, last_price \in Prices, quote \in Prices,
        fail \in FailAt :
       LET position == get_base_account_positions(base_account, TRUE)[1]
           result == mimic_position_in_account(position, EngineTarget,
                       base_total_margin, target_total_margin, positions_ok,
                       last_price, quote, fail)
       IN  /\ orders' = orders \o OrderEntries(EngineTarget, position, result,
                                               "mimic", Len(trades) + 1)
           /\ trades' = Append(trades,
                 [TradeEntry(EngineTarget, position, result, "mimic")
                    EXCEPT !.read_ok = positions_ok])
  /\ UNCHANGED << listenerVars, visited, brokerVars, book, pc, cycle, ret, accounts, cycleVars, nfilled >>

\* close_position_in_account(the target's open NIFTY position, target)
EngineClose ==
  /\ pc = "engine"
  /\ Len(trades) < MaxCalls
  /\ get_target_account_open_positions(EngineTarget, TRUE) # <<>>
  /\ \E last_price \in Prices, quote \in Prices, fail \in FailAt :
       LET position == get_target_account_open_positions(EngineTarget, TRUE)[1]
           result == close_position_in_account(position, EngineTarget,
                                               last_price, quote, fail)
       IN  /\ orders' = orders \o OrderEntries(EngineTarget, position, result,
                                               "close", Len(trades) + 1)
           /\ trades' = Append(trades, TradeEntry(EngineTarget, position,
                                                  result, "close"))
  /\ UNCHANGED << listenerVars, visited, brokerVars, book, pc, cycle, ret, accounts, cycleVars, nfilled >>

NextEngine ==
  \/ EngineMimic
  \/ EngineClose
  \/ Fill

SpecEngine == InitEngine /\ [][NextEngine]_vars

\* Sizing with margins and quantities of the size the accounts hold:
\* << base margin, target margin >>, NFO lots of 65 and 75
SizingMargins ==
  { << 10000000, 2500000 >>, << 3000000, 7000000 >>, << 3000000, 3000000 >> }

SizingLots == {65, 75}

SizingBaseQuantities == {-75, -195, 195}

SizingTargetQuantities == {0, -75, 65, 455}

InitSizing ==
  /\ config = FixedRegistry
  /\ session = [a \in Accounts |-> TRUE]
  /\ lowercase = [a \in Accounts |-> FALSE]
  /\ \E m \in SizingMargins :
       margin = [a \in Accounts |-> IF a = 1 THEN m[1] ELSE IF a = 2 THEN m[2] ELSE 0]
  /\ \E b \in SizingBaseQuantities, t \in SizingTargetQuantities :
       book = [a \in Accounts |->
                 IF a = 1 THEN << b, 0, 0, 0 >>
                 ELSE IF a = 2 THEN << t, 0, 0, 0 >> ELSE NoBook]
  /\ \E lot \in SizingLots :
       lot_sizes = [e \in Exchanges |-> IF e = "NFO" THEN lot ELSE DefaultBfoLot]
  /\ max_quantity = DefaultMaxQuantity
  /\ EngineCalled

SpecSizing == InitSizing /\ [][NextEngine]_vars


(***************************************************************************)
(* The listener in AUTO mode (main_listener_loop): one action per          *)
(* iteration of its loop.  The clock counts whole seconds; a sync takes    *)
(* 0..MaxSyncSeconds of them, and the sleep between two polls moves the    *)
(* clock by poll_seconds up to poll_seconds + MaxOversleep.                *)
(***************************************************************************)
MaxTime == 125
MaxSyncSeconds == 3
MaxOversleep == 1

\* datetime: seconds of a minute, minutes of an hour
SecondsPerMinute == 60
MinutesPerHour == 60

\* current_time.minute and current_time.second
MinuteOf(t) == (t \div SecondsPerMinute) % MinutesPerHour

SecondOf(t) == t % SecondsPerMinute

syncVars ==
  << config, session, book, lowercase, margin, lot_sizes, max_quantity, pc,
     cycle, ret, accounts, cycleVars, orders, nfilled, trades, visited >>

\* the listener starts in AUTO mode at any second of a minute; it polls
\* every AutoPollSeconds, or (poll_seconds = 0) several times a second
InitAuto ==
  /\ config = FixedRegistry
  /\ session = [a \in Accounts |-> TRUE]
  /\ lowercase = [a \in Accounts |-> FALSE]
  /\ margin = [a \in Accounts |-> 0]
  /\ book = [a \in Accounts |-> NoBook]
  /\ InitPolicy
  /\ CycleAtStart
  /\ trading_mechanism = "AUTO"
  /\ now \in 0..(SecondsPerMinute - 1)
  /\ current_time = None
  /\ branch = "none"
  /\ poll_seconds \in 0..AutoPollSeconds
  /\ first_auto_trigger_done = FALSE
  /\ last_auto_trigger_minute = None
  /\ fired = <<>>
  /\ SheetUnused

\* the AUTO branch is taken whatever the mode
InAutoBranchAlways == TRUE

InAutoBranch == trading_mechanism = "AUTO"

\* a sync is fired at every poll that falls on second 0
DueAtEverySecondZero(current_minute, current_second) == current_second = 0

\* the elif of the AUTO branch: second 0 of a minute not yet fired for
DueAtBoundary(current_minute, current_second) ==
  current_second = 0 /\ << current_minute >> # last_auto_trigger_minute

\* time.sleep(1) at the bottom of the AUTO branch
Sleeps == poll_seconds..(poll_seconds + MaxOversleep)

\* first iteration: the startup sync
AutoFirstTrigger ==
  /\ InAutoBranch
  /\ ~first_auto_trigger_done
  /\ current_time' = << now >>
  /\ branch' = "startup"
  /\ first_auto_trigger_done' = TRUE
  /\ last_auto_trigger_minute' = << MinuteOf(now) >>
  /\ fired' = Append(fired, [time |-> now, kind |-> "startup"])
  /\ \E took \in 0..MaxSyncSeconds, slept \in Sleeps :
       /\ now + took + slept <= MaxTime
       /\ now' = now + took + slept
  /\ UNCHANGED << syncVars, sheetVars, trading_mechanism, poll_seconds >>

\* an iteration at second 0 of a minute that was not fired for
AutoBoundaryTrigger ==
  /\ InAutoBranch
  /\ first_auto_trigger_done
  /\ DueAtBoundary(MinuteOf(now), SecondOf(now))
  /\ current_time' = << now >>
  /\ branch' = "boundary"
  /\ last_auto_trigger_minute' = << MinuteOf(now) >>
  /\ fired' = Append(fired, [time |-> now, kind |-> "boundary"])
  /\ \E took \in 0..MaxSyncSeconds, slept \in Sleeps :
       /\ now + took + slept <= MaxTime
       /\ now' = now + took + slept
  /\ UNCHANGED << syncVars, sheetVars, trading_mechanism, poll_seconds,
                  first_auto_trigger_done >>

\* an iteration that fires nothing
AutoNoTrigger ==
  /\ InAutoBranch
  /\ first_auto_trigger_done
  /\ ~DueAtBoundary(MinuteOf(now), SecondOf(now))
  /\ current_time' = << now >>
  /\ branch' = "idle"
  /\ \E slept \in Sleeps :
       /\ now + slept <= MaxTime
       /\ now' = now + slept
  /\ UNCHANGED << syncVars, sheetVars, trading_mechanism, poll_seconds,
                  first_auto_trigger_done, last_auto_trigger_minute, fired >>

NextAuto ==
  \/ AutoFirstTrigger
  \/ AutoBoundaryTrigger
  \/ AutoNoTrigger

SpecAuto == InitAuto /\ [][NextAuto]_vars


(***************************************************************************)
(* The listener in either mode.  In BUTTON BASED mode one iteration of the *)
(* loop is three steps (check_trigger, clear_trigger, run_sync) between    *)
(* which the operator may write to the sheet.  Reads of the trigger cells  *)
(* succeed; the write of clear_trigger may fail.                           *)
(***************************************************************************)
MaxButtonTime == 13
MaxFires == 2

TRIGGER_VALUES == {"TRIGGER", "SYNC", "RUN", "1", "YES"}

\* what the operator may leave in a trigger cell
CellValues == {"", "Yes", "NO"}

\* "trading_mechanism" as accounts_config.json may hold it
ConfiguredMechanisms == {"AUTO", "BUTTON BASED", "Auto"}

\* seconds since the epoch when the listener starts
EpochAtStart == 1700000000

\* time.time()
time_time == EpochAtStart + now

\* the re-fire cooldown of a trigger, in seconds
TriggerCooldown == 10

\* time.sleep(5) while no worksheet is held
NoSheetSleep == 5

\* the mode the loop runs in: AUTO, else BUTTON BASED
StartupMechanism(configured) ==
  IF configured = "AUTO" THEN "AUTO"
  ELSE IF configured = "BUTTON BASED" THEN "BUTTON BASED"
  ELSE "BUTTON BASED"

\* in AUTO mode the listener is started in the last seconds of a minute
AutoStartWindow == 3

\* the listener after its startup, before the first iteration of the loop
InitListener ==
  /\ config = FixedRegistry
  /\ session = [a \in Accounts |-> TRUE]
  /\ lowercase = [a \in Accounts |-> FALSE]
  /\ margin = [a \in Accounts |-> 0]
  /\ book = [a \in Accounts |-> NoBook]
  /\ InitPolicy
  /\ CycleAtStart
  /\ \E configured \in ConfiguredMechanisms, connected \in BOOLEAN,
        found_column \in BOOLEAN :
       /\ trading_mechanism = StartupMechanism(configured)
       /\ worksheet = (configured = "BUTTON BASED" /\ connected)
       /\ trigger_col = (worksheet /\ found_column)
       /\ sheet_ops = (IF configured = "BUTTON BASED" THEN {"open_by_key"} ELSE {})
                         \cup (IF worksheet THEN {"row_values"} ELSE {})
  /\ IF trading_mechanism = "AUTO"
       THEN /\ now \in (SecondsPerMinute - AutoStartWindow)..(SecondsPerMinute - 1)
            /\ poll_seconds \in 0..AutoPollSeconds
       ELSE now = 0 /\ poll_seconds = AutoPollSeconds
  /\ current_time = None
  /\ branch = "none"
  /\ first_auto_trigger_done = FALSE
  /\ last_auto_trigger_minute = None
  /\ fired = <<>>
  /\ flags = [r \in Rows |-> ""]
  /\ row_num = None
  /\ trigger_value = None
  /\ last_trigger_time = None
  /\ last_trigger_row = None
  /\ clears = <<>>

\* "cell_value and str(cell_value).strip().upper() in TRIGGER_VALUES"
IsTriggerValue(cell_value) ==
  cell_value # "" /\ Upper(cell_value) \in {Upper(v) : v \in TRIGGER_VALUES}

\* check_trigger: the first row whose cell holds a trigger value
check_trigger ==
  LET hits == {r \in Rows : IsTriggerValue(flags[r])}
      first == CHOOSE r \in hits : \A q \in hits : r <= q
  IN  IF hits = {} THEN [row_num |-> None, trigger_value |-> None]
      ELSE [row_num |-> << first >>, trigger_value |-> << flags[first] >>]

\* every poll that finds a trigger value acts on it
TriggerDueWheneverSet(row, time_now) == row # None

\* "row_num and (row_num != last_trigger_row or
\*               time.time() - (last_trigger_time or 0) > 10)"
TriggerDue(row, time_now) ==
  /\ row # None
  /\ \/ row # last_trigger_row
     \/ time_now - (IF last_trigger_time = None THEN 0 ELSE last_trigger_time[1])
          > TriggerCooldown

\* the sync is run only when the cell was cleared
SyncRunsOnlyIfCleared(cleared) == cleared

\* clear_trigger swallows the failure of update_cell; run_sync is next
SyncRunsAfterClear(cleared) == TRUE

InButtonBranch == trading_mechanism = "BUTTON BASED"

\* the loop is at its top, not between the steps of an iteration
AtTopOfLoop == branch \notin {"detected", "cleared", "clear_failed"}

buttonFixed ==
  << syncVars, trading_mechanism, poll_seconds, last_auto_trigger_minute,
     worksheet, trigger_col >>

\* check_trigger and the de-duplication test
ButtonPoll ==
  /\ InButtonBranch
  /\ AtTopOfLoop
  /\ worksheet /\ trigger_col
  /\ first_auto_trigger_done' = FALSE
  /\ row_num' = check_trigger.row_num
  /\ trigger_value' = check_trigger.trigger_value
  /\ sheet_ops' = sheet_ops \cup {"cell"}
  /\ IF TriggerDue(row_num', time_time)
       THEN /\ Len(fired) < MaxFires
            /\ current_time' = << time_time >>
            /\ branch' = "detected"
            /\ now' = now
       ELSE /\ current_time' = current_time
            /\ branch' = "idle"
            /\ \E slept \in Sleeps :
                 /\ now + slept <= MaxButtonTime
                 /\ now' = now + slept
  /\ UNCHANGED << buttonFixed, fired, flags, last_trigger_time,
                  last_trigger_row, clears >>

\* clear_trigger: update_cell(row_num, trigger_col, ""), which may raise
ButtonClear ==
  /\ InButtonBranch
  /\ branch = "detected"
  /\ \E cleared \in BOOLEAN :
       /\ flags' = IF cleared THEN [flags EXCEPT ![row_num[1]] = ""] ELSE flags
       /\ clears' = Append(clears, [row |-> row_num[1], ok |-> cleared])
       /\ branch' = IF cleared THEN "cleared" ELSE "clear_failed"
  /\ sheet_ops' = sheet_ops \cup {"update_cell"}
  /\ UNCHANGED << buttonFixed, now, current_time, first_auto_trigger_done,
                  fired, row_num, trigger_value, last_trigger_time,
                  last_trigger_row >>

\* run_sync, the bookkeeping of the trigger and time.sleep(1)
ButtonSync ==
  /\ InButtonBranch
  /\ branch \in {"cleared", "clear_failed"}
  /\ fired' = IF SyncRunsAfterClear(branch = "cleared")
                THEN Append(fired, [time |-> now, kind |-> "button",
                                    row |-> row_num[1],
                                    value |-> trigger_value[1]])
                ELSE fired
  /\ last_trigger_time' = current_time
  /\ last_trigger_row' = row_num
  /\ branch' = "synced"
  /\ \E took \in 0..MaxSyncSeconds, slept \in Sleeps :
       /\ now + took + slept <= MaxButtonTime
       /\ now' = now + took + slept
  /\ UNCHANGED << buttonFixed, current_time, first_auto_trigger_done, flags,
                  row_num, trigger_value, sheet_ops, clears >>

\* no worksheet: time.sleep(5) and back to the top of the loop
ButtonNoSheet ==
  /\ InButtonBranch
  /\ AtTopOfLoop
  /\ ~worksheet
  /\ first_auto_trigger_done' = FALSE
  /\ branch' = "idle"
  /\ \E over \in 0..MaxOversleep :
       /\ now + NoSheetSleep + over <= MaxButtonTime
       /\ now' = now + NoSheetSleep + over
  /\ UNCHANGED << buttonFixed, current_time, fired, flags, row_num,
                  trigger_value, last_trigger_time, last_trigger_row,
                  sheet_ops, clears >>

\* a worksheet without the "Sync Trigger" column: nothing is read
ButtonNoColumn ==
  /\ InButtonBranch
  /\ AtTopOfLoop
  /\ worksheet /\ ~trigger_col
  /\ first_auto_trigger_done' = FALSE
  /\ branch' = "idle"
  /\ \E slept \in Sleeps :
       /\ now + slept <= MaxButtonTime
       /\ now' = now + slept
  /\ UNCHANGED << buttonFixed, current_time, fired, flags, row_num,
                  trigger_value, last_trigger_time, last_trigger_row,
                  sheet_ops, clears >>

\* the operator writes a value into a trigger cell of the sheet
OperatorWritesCell ==
  /\ \E r \in Rows, v \in CellValues :
       /\ flags[r] # v
       /\ flags' = [flags EXCEPT ![r] = v]
  /\ UNCHANGED << syncVars, trading_mechanism, now, current_time, branch,
                  poll_seconds, first_auto_trigger_done,
                  last_auto_trigger_minute, fired, worksheet, trigger_col,
                  row_num, trigger_value, last_trigger_time, last_trigger_row,
                  sheet_ops, clears >>

NextListener ==
  \/ AutoFirstTrigger
  \/ AutoBoundaryTrigger
  \/ AutoNoTrigger
  \/ ButtonPoll
  \/ ButtonClear
  \/ ButtonSync
  \/ ButtonNoSheet
  \/ ButtonNoColumn
  \/ OperatorWritesCell

SpecListener == InitListener /\ [][NextListener]_vars


(***************************************************************************)
(* Properties                                                              *)
(***************************************************************************)
CycleOrders == {k \in DOMAIN orders : orders[k].cycle = cycle}

CycleTrades == {k \in DOMAIN trades : trades[k].cycle = cycle}

SameKey(p, q) ==
  /\ Upper(p.exchange) = Upper(q.exchange)
  /\ Upper(p.tradingsymbol) = Upper(q.tradingsymbol)

LotOf(exchange) == IF exchange = "NFO" THEN lot_sizes["NFO"] ELSE lot_sizes["BFO"]

\* C1: when fetching the base account's positions fails, the cycle places
\* no close order and no mirror order in any target account.
C1_BaseFetchFailureIsFatal ==
  base_fetch_failed => CycleOrders = {}

\* C2: every order submitted is placed in an account whose copy flag is YES,
\* that is not the base account and that has an established session.
C2_OrdersOnlyInCopyTargets ==
  \A k \in DOMAIN orders :
    LET a == orders[k].account
    IN  /\ Upper(config[a].copy_trades) = "YES"
        /\ a # base_account
        /\ session[a]

C2_Witness ==
  /\ orders # <<>>
  /\ \E a \in Accounts :
       session[a] /\ Upper(config[a].copy_trades) = "NO" /\ margin[a] > 0

\* C10: when no account is marked base with an established session, the
\* cycle ends with return value False, having touched no target and placed
\* no order.
C10_NoBaseAborts ==
  (/\ pc = "done"
   /\ accounts # <<>>
   /\ ~\E a \in Accounts : accounts[a].is_base_account /\ session[a])
  => (ret = FALSE /\ orders = <<>> /\ trades = <<>> /\ target_accounts = <<>>)

C10_Witness ==
  /\ pc = "done"
  /\ accounts # <<>>
  /\ ~\E a \in Accounts : accounts[a].is_base_account /\ session[a]
  /\ \E a \in Accounts :
       session[a] /\ config[a].copy_trades = "Yes" /\ margin[a] > 0


\* C7: with the keys (exchange, symbol) compared case-insensitively, the
\* close pass of a target acts on exactly the target's open positions whose
\* key no base position has (all of them when the base has none), and the
\* mirror pass, when it runs, acts on exactly the base positions.
TradedPositions(kind) ==
  {trades[k].position :
     k \in {n \in CycleTrades :
              trades[n].kind = kind /\ trades[n].account = CurrentTarget}}

NoOfTrades(kind) ==
  Cardinality({n \in CycleTrades :
                 trades[n].kind = kind /\ trades[n].account = CurrentTarget})

StrayPositions ==
  {target_open_positions[i] : i \in
     {n \in DOMAIN target_open_positions :
        ~\E j \in DOMAIN base_positions :
            SameKey(base_positions[j], target_open_positions[n])}}

BasePositionSet == {base_positions[j] : j \in DOMAIN base_positions}

ClosePassOver == pc = "sync" /\ cIdx > Len(positions_to_close)

MirrorPassOver == ClosePassOver /\ MirrorPassRuns /\ mIdx > Len(base_positions)

C7_ClosureCompleteness ==
  /\ ClosePassOver =>
       /\ TradedPositions("close") = StrayPositions
       /\ NoOfTrades("close") = Cardinality(StrayPositions)
  /\ MirrorPassOver =>
       /\ TradedPositions("mimic") = BasePositionSet
       /\ NoOfTrades("mimic") = Cardinality(BasePositionSet)
  /\ pc = "sync" =>
       /\ TradedPositions("close") \subseteq StrayPositions
       /\ TradedPositions("mimic") \subseteq BasePositionSet

C7_Witness ==
  /\ MirrorPassOver
  /\ lowercase[1]
  /\ Cardinality(StrayPositions) = 2
  /\ Cardinality(BasePositionSet) = 1
  /\ Len(target_open_positions) = 3

\* C9: within one target account in a cycle every stray-close call and
\* order comes before every mirror call and order, and no mirror call
\* is made before all stray positions of that target were attempted.
C9_CloseBeforeMirror ==
  /\ \A i \in DOMAIN trades, j \in DOMAIN trades :
       (/\ trades[i].account = trades[j].account
        /\ trades[i].cycle = trades[j].cycle
        /\ trades[i].kind = "close"
        /\ trades[j].kind = "mimic") => i < j
  /\ \A i \in DOMAIN orders, j \in DOMAIN orders :
       (/\ orders[i].account = orders[j].account
        /\ orders[i].cycle = orders[j].cycle
        /\ orders[i].tag = "close"
        /\ orders[j].tag = "mimic") => i < j
  /\ (pc = "sync" /\ NoOfTrades("mimic") > 0) =>
       NoOfTrades("close") = Len(positions_to_close)

C9_Witness ==
  /\ pc = "sync"
  /\ NoOfTrades("close") = 2
  /\ NoOfTrades("mimic") = 1
  /\ \E i \in DOMAIN orders, j \in DOMAIN orders :
       /\ orders[i].tag = "close" /\ orders[j].tag = "mimic"
       /\ orders[i].account = orders[j].account


\* C4: over consecutive cycles with unchanged base positions and margins,
\* the quantity ordered by the mirror step for a (target, exchange, symbol)
\* never exceeds the one rounded delta that takes the target from the
\* quantity it started with to the intended quantity, even when a cycle
\* starts before the orders of the previous one are filled.
MirrorOrders(a, i) ==
  {k \in DOMAIN orders :
     orders[k].account = a /\ orders[k].tag = "mimic" /\ InstrumentOf(orders[k]) = i}

RECURSIVE SumSigned(_)
SumSigned(ks) ==
  IF ks = {} THEN 0
  ELSE LET k == CHOOSE n \in ks : TRUE
       IN  SignedQty(orders[k]) + SumSigned(ks \ {k})

\* the quantity account a held before any order of the log was filled
StartQty(a, i) ==
  book[a][i] - SumSigned({k \in 1..nfilled :
                            orders[k].account = a /\ InstrumentOf(orders[k]) = i})

IntendedQty(a, i) ==
  LET lot == LotOf(Instruments[i].exchange)
      b == book[1][i]
      lots == (margin[a] * Abs(b) + margin[1] * lot - 1) \div (margin[1] * lot)
  IN  IF b < 0 THEN -(lots * lot) ELSE lots * lot

NeededQty(a, i) ==
  LET lot == LotOf(Instruments[i].exchange)
      gap == Abs(IntendedQty(a, i) - StartQty(a, i))
  IN  IF gap < lot THEN 0 ELSE ((gap + lot - 1) \div lot) * lot

\* no position was closed and every mirror step read the target's quantity
OnlyMirrorStepsThatRead ==
  \A k \in DOMAIN trades : trades[k].read_ok /\ trades[k].kind = "mimic"

C4_NoDoubleTrade ==
  OnlyMirrorStepsThatRead =>
    \A a \in Accounts \ {1}, i \in 1..3 :
      Abs(SumSigned(MirrorOrders(a, i))) <= NeededQty(a, i)

(***************************************************************************)
(* Properties of the engine                                                *)
(***************************************************************************)
\* C3, with both position reads succeeding: when a mirror step has
\* succeeded, its orders are all filled and the step is run again on
\* unchanged base quantity and margins, the second run finds abs(delta)
\* below the lot size and submits no order.
Rerun(k) ==
  /\ k > 1
  /\ trades[k - 1].kind = "mimic" /\ trades[k].kind = "mimic"
  /\ trades[k - 1].result.ret
  /\ trades[k - 1].read_ok /\ trades[k].read_ok
  /\ trades[k].pending = 0

C3_MirrorIdempotent ==
  \A k \in DOMAIN trades :
    Rerun(k) =>
      /\ Abs(trades[k].result.delta_qty) < LotOf("NFO")
      /\ trades[k].result.exit = "no_trade"
      /\ trades[k].result.accepted = <<>>
      /\ ~\E n \in DOMAIN orders : orders[n].trade = k

C3_Witness ==
  \E k \in DOMAIN trades :
    /\ Rerun(k)
    /\ Len(trades[k - 1].result.accepted) >= 2
    /\ trades[k - 1].result.current_qty % LotOf("NFO") # 0
    /\ trades[k].result.delta_qty # 0

\* C3: as stated, for every second run of the mirror step after a
\* successful and filled first run, whether or not the position reads of
\* the two runs succeeded: abs(delta) is below the lot size and no order is
\* submitted.
RerunOnAnyRead(k) ==
  /\ k > 1
  /\ trades[k - 1].kind = "mimic" /\ trades[k].kind = "mimic"
  /\ trades[k - 1].result.ret
  /\ trades[k].pending = 0

C3_SecondRunPlacesNothing ==
  \A k \in DOMAIN trades :
    RerunOnAnyRead(k) =>
      /\ Abs(trades[k].result.delta_qty) < LotOf("NFO")
      /\ ~\E n \in DOMAIN orders : orders[n].trade = k

\* C5: every quantity passed to place_order is a positive integer multiple
\* of the lot size of its exchange.
C5_QuantitiesAreLotMultiples ==
  \A k \in DOMAIN orders :
    /\ orders[k].quantity > 0
    /\ LotOf(orders[k].exchange) > 0
    /\ orders[k].quantity % LotOf(orders[k].exchange) = 0

\* C6: when every submission succeeds, the chunks of a trade of quantity Q
\* under cap C sum to Q, each is at most C, there are ceil(Q/C) of them, all
\* but the last equal C, and all carry the symbol, exchange and direction
\* of the trade.
Submitted(k) == trades[k].result.ret /\ trades[k].result.accepted # <<>>

C6_SplitCorrect ==
  \A k \in DOMAIN trades :
    Submitted(k) =>
      LET Q == trades[k].result.order_qty
          C == trades[k].result.max_qty
          chunks == trades[k].result.accepted
          n == Len(chunks)
          placed == {m \in DOMAIN orders : orders[m].trade = k}
      IN  /\ Q > 0 /\ C > 0
          /\ SumSeq(chunks) = Q
          /\ \A m \in 1..n : chunks[m] > 0 /\ chunks[m] <= C
          /\ n * C >= Q /\ (n - 1) * C < Q
          /\ \A m \in 1..(n - 1) : chunks[m] = C
          /\ Cardinality(placed) = n
          /\ \A m \in placed :
               /\ orders[m].quantity = chunks[orders[m].slice_index]
               /\ orders[m].tradingsymbol = trades[k].position.tradingsymbol
               /\ orders[m].exchange = Upper(trades[k].position.exchange)
               /\ orders[m].transaction_type = trades[k].result.transaction_type
               /\ orders[m].account = trades[k].account

C6_Witness ==
  \E k \in DOMAIN trades :
    /\ Submitted(k)
    /\ Len(trades[k].result.accepted) = 3
    /\ trades[k].result.accepted[3] < trades[k].result.max_qty

\* C8: closing a position of quantity q submits opposite-direction orders
\* of total quantity abs(q), so that the position is flat once they fill.
C8_CloseFlattens ==
  \A k \in DOMAIN trades :
    (trades[k].kind = "close" /\ Submitted(k)) =>
      /\ SumSeq(trades[k].result.accepted) = Abs(trades[k].position.quantity)
      /\ trades[k].result.transaction_type =
           (IF trades[k].position.quantity > 0 THEN "SELL" ELSE "BUY")


\* C11: the sync-now script exits with code 0 when the pass succeeded and
\* with a nonzero code when no base account could be resolved, so that the
\* listener's run_sync reports an unresolved base as a failed sync.
C11_ExitCodeReportsUnresolvedBase ==
  pc = "done" =>
    /\ ret => SyncNowExitCode(ret) = 0
    /\ (accounts # <<>> /\ base_account = 0) =>
         /\ SyncNowExitCode(ret) # 0
         /\ ~run_sync(SyncNowExitCode(ret))


\* C12: a failure at any step of one target's processing (margin fetch,
\* position fetch, price lookup, stray close, mirror, order submission) does
\* not keep any later target of the list from being processed in the same
\* cycle: the targets are visited in list order, and a cycle that resolved
\* its base ends having visited every target and made one mirror call per
\* base position in every target whose margin was valid.
CycleVisited == SelectSeq(visited, LAMBDA e : e.cycle = cycle)

MimicCalls(a) ==
  {k \in DOMAIN trades :
     trades[k].cycle = cycle /\ trades[k].account = a /\ trades[k].kind = "mimic"}

C12_TargetFailureIsolation ==
  /\ Len(CycleVisited) <= Len(target_accounts)
  /\ \A k \in DOMAIN CycleVisited : CycleVisited[k].account = target_accounts[k]
  /\ pc = "sync" => Len(CycleVisited) = tIdx
  /\ pc = "target" => Len(CycleVisited) = tIdx - 1
  /\ (pc = "done" /\ base_account # 0) =>
       /\ ret
       /\ Len(CycleVisited) = Len(target_accounts)
       /\ \A k \in DOMAIN CycleVisited :
            (CycleVisited[k].synced /\ MirrorPassRuns) =>
              Cardinality(MimicCalls(CycleVisited[k].account)) = Len(base_positions)

C12_Witness ==
  /\ pc = "done"
  /\ Len(target_accounts) = 2
  /\ \E k \in DOMAIN trades :
       /\ trades[k].account = target_accounts[1]
       /\ ~trades[k].result.ret
       /\ trades[k].result.exit = "order"
  /\ \E n \in DOMAIN orders : orders[n].account = target_accounts[2]


\* C13: when the order submission for one base symbol fails in a target
\* account, the mirror pass still processes every remaining base symbol for
\* that target in the same cycle: the mirror calls of a target are made for
\* the base positions in order, one each, whatever the earlier calls
\* returned.
MimicSeq(a) ==
  SelectSeq(trades,
            LAMBDA t : t.cycle = cycle /\ t.account = a /\ t.kind = "mimic")

C13_SymbolFailureIsolation ==
  \A k \in DOMAIN CycleVisited :
    LET calls == MimicSeq(CycleVisited[k].account)
    IN  /\ Len(calls) <= Len(base_positions)
        /\ \A j \in DOMAIN calls : calls[j].position = base_positions[j]
        /\ (pc = "sync" /\ k = tIdx) => Len(calls) = mIdx - 1
        /\ (k < tIdx /\ CycleVisited[k].synced /\ MirrorPassRuns) =>
             Len(calls) = Len(base_positions)

C13_Witness ==
  \E i \in DOMAIN trades, j \in DOMAIN trades :
    /\ i < j
    /\ trades[i].kind = "mimic" /\ trades[j].kind = "mimic"
    /\ trades[i].account = trades[j].account
    /\ trades[i].result.exit = "order" /\ ~trades[i].result.ret
    /\ trades[j].result.ret /\ trades[j].result.accepted # <<>>
    /\ Len(base_positions) = 3


\* C14 (as stated): for every nonzero base quantity and every pair of
\* positive margins, the signed intended target quantity computed by
\* mimic_position_in_account is nonzero and has the sign of the base
\* quantity.
SizedMirrorCall(k) ==
  /\ trades[k].kind = "mimic"
  /\ trades[k].position.quantity # 0
  /\ ValidMargin(base_total_margin)
  /\ ValidMargin(target_total_margin)

SignKept(k) ==
  /\ trades[k].result.exit # "no_intended"
  /\ trades[k].result.intended_qty_signed # 0
  /\ (trades[k].result.intended_qty_signed > 0) <=> (trades[k].position.quantity > 0)

C14_SignFidelityAnyLot ==
  \A k \in DOMAIN trades : SizedMirrorCall(k) => SignKept(k)

\* C14 (amended): the same, when the configured lot size of the position's
\* exchange is positive.
C14_SignFidelity ==
  \A k \in DOMAIN trades :
    (SizedMirrorCall(k) /\ LotOf(Upper(trades[k].position.exchange)) > 0)
      => SignKept(k)

C14_Witness ==
  \E k \in DOMAIN trades :
    /\ SizedMirrorCall(k)
    /\ LotOf(Upper(trades[k].position.exchange)) > 1
    /\ trades[k].position.quantity < 0
    /\ trades[k].result.intended_qty_signed < 0
    /\ trades[k].result.current_qty > 0
    /\ base_total_margin # target_total_margin


\* C15: for every quantity q > 0 and lot size L > 0 round_to_lot_size
\* returns the least multiple of L that is >= q (result mod L = 0,
\* result >= q, result - q < L), and it returns 0 when q <= 0 or L <= 0.
\* The calls checked are the three the engine makes: the proportional
\* quantity target/base * abs(base quantity) (a fraction num/den), the
\* absolute delta of a mirror step and the absolute quantity of a close.
LeastMultiple(r, num, den, lot) ==
  /\ r % lot = 0
  /\ r * den >= num
  /\ (r - lot) * den < num

RoundsAsClaimed(r, num, den, lot) ==
  IF lot > 0 /\ num > 0 THEN LeastMultiple(r, num, den, lot) ELSE r = 0

\* the least multiple of lot above num / den: the quantity rounded is the
\* double next above num / den
LeastMultipleAbove(r, num, den, lot) ==
  /\ r % lot = 0
  /\ r * den > num
  /\ (r - lot) * den <= num

ProportionalAbove(k) ==
  /\ ValidMargin(base_total_margin)
  /\ ProductRoundsAbove(target_total_margin[1], base_total_margin[1],
                        Abs(trades[k].position.quantity))

\* the proportional quantity of mirror call k, as a fraction
ProportionalNum(k) ==
  IF ValidMargin(base_total_margin)
    THEN target_total_margin[1] * Abs(trades[k].position.quantity) ELSE 0

ProportionalDen(k) ==
  IF ValidMargin(base_total_margin) THEN base_total_margin[1] ELSE 1

C15_LotAlignment ==
  \A k \in DOMAIN trades :
    LET t == trades[k]
        lot == LotOf(Upper(t.position.exchange))
    IN  /\ t.kind = "mimic" =>
             /\ IF ProportionalAbove(k) /\ lot > 0
                  THEN LeastMultipleAbove(Abs(t.result.intended_qty_signed),
                         ProportionalNum(k), ProportionalDen(k), lot)
                  ELSE RoundsAsClaimed(Abs(t.result.intended_qty_signed),
                         ProportionalNum(k), ProportionalDen(k), lot)
             /\ (t.result.exit = "no_intended") <=>
                  (lot <= 0 \/ ProportionalNum(k) <= 0)
             /\ t.result.exit = "order" =>
                  RoundsAsClaimed(t.result.order_qty, Abs(t.result.delta_qty), 1, lot)
        /\ t.kind = "close" =>
             /\ t.result.exit = "order" =>
                  RoundsAsClaimed(t.result.order_qty, Abs(t.position.quantity), 1, lot)
             /\ (t.result.exit = "too_small") <=> lot <= 0

C15_Witness ==
  \E k \in DOMAIN trades :
    /\ trades[k].kind = "mimic"
    /\ trades[k].result.exit = "order"
    /\ LotOf("NFO") = 2
    /\ ProportionalNum(k) % ProportionalDen(k) # 0
    /\ Abs(trades[k].result.intended_qty_signed) * ProportionalDen(k) > ProportionalNum(k)
    /\ trades[k].result.order_qty > Abs(trades[k].result.delta_qty)


\* C16: for base total margin B > 0, target total margin T > 0 and base
\* quantity b # 0 the intended magnitude is T * abs(b) / B rounded up to
\* the lot size, which is at least one lot; with B = 10,000,000,
\* T = 2,500,000, b = -75 and lot 75 a target holding 0 gets intended -75
\* and a single SELL of 75, and a target already holding -75 gets no order.
SizingExample(k) ==
  /\ base_total_margin = << 10000000 >>
  /\ target_total_margin = << 2500000 >>
  /\ trades[k].position.quantity = -75
  /\ LotOf("NFO") = 75
  /\ trades[k].read_ok

C16_ProportionalSizing ==
  \A k \in DOMAIN trades :
    LET t == trades[k]
        lot == LotOf(Upper(t.position.exchange))
    IN  (SizedMirrorCall(k) /\ lot > 0) =>
          /\ LeastMultiple(Abs(t.result.intended_qty_signed),
                           ProportionalNum(k), ProportionalDen(k), lot)
          /\ Abs(t.result.intended_qty_signed) >= lot
          /\ SizingExample(k) =>
               /\ t.result.intended_qty_signed = -75
               /\ (t.result.current_qty = 0 /\ t.result.exit = "order") =>
                    /\ t.result.transaction_type = "SELL"
                    /\ t.result.order_qty = 75
                    /\ t.result.ret => t.result.accepted = << 75 >>
               /\ t.result.current_qty = -75 =>
                    (t.result.exit = "no_trade" /\ t.result.accepted = <<>>)


(***************************************************************************)
(* Properties of the listener                                              *)
(***************************************************************************)
\* the minute boundaries (second 0 of a minute) after the startup sync that
\* the clock has left behind
PassedBoundaries ==
  {t \in 0..MaxTime :
     /\ SecondOf(t) = 0
     /\ fired # <<>>
     /\ fired[1].time < t
     /\ t < now}

\* C17: in AUTO mode, polling once a second, the listener fires a sync at
\* once on startup and thereafter at second 0 of every minute: no minute
\* boundary after startup passes without a sync being fired at it, whatever
\* the duration of the previous sync and of the sleep between two polls.
C17_EveryMinuteFires ==
  poll_seconds = AutoPollSeconds =>
    /\ first_auto_trigger_done =>
         (fired # <<>> /\ fired[1].kind = "startup")
    /\ \A t \in PassedBoundaries : \E k \in DOMAIN fired : fired[k].time = t

\* C18: in AUTO mode, for every polling frequency, no two syncs are fired
\* in the same wall-clock minute: a minute boundary fires at most once, and
\* the startup sync and a boundary sync never fall in the same minute; a
\* boundary sync is fired at second 0.
C18_AtMostOncePerMinute ==
  /\ \A i \in DOMAIN fired, j \in DOMAIN fired :
       i < j => fired[i].time \div SecondsPerMinute # fired[j].time \div SecondsPerMinute
  /\ \A k \in DOMAIN fired :
       fired[k].kind = "boundary" => SecondOf(fired[k].time) = 0
  /\ \A k \in DOMAIN fired : (fired[k].kind = "startup") <=> (k = 1)

C18_Witness ==
  /\ poll_seconds = 0
  /\ Len(fired) >= 2
  /\ branch = "idle"
  /\ current_time = << fired[Len(fired)].time >>
  /\ now = fired[Len(fired)].time


\* C19 (as stated): with delta = intended_signed - current,
\* mimic_position_in_account submits no order when abs(delta) < lot size;
\* otherwise it submits a trade of total quantity abs(delta) rounded up to
\* the lot size, a BUY when delta > 0 and a SELL when delta < 0.
MirrorCallWithDelta(k) ==
  /\ trades[k].kind = "mimic"
  /\ trades[k].result.exit \in {"no_trade", "no_ltp", "order"}

C19_DeltaRuleAlwaysSubmits ==
  \A k \in DOMAIN trades :
    LET r == trades[k].result
        lot == LotOf(Upper(trades[k].position.exchange))
    IN  MirrorCallWithDelta(k) =>
          /\ Abs(r.delta_qty) < lot => r.accepted = <<>>
          /\ Abs(r.delta_qty) >= lot =>
               /\ LeastMultiple(SumSeq(r.accepted), Abs(r.delta_qty), 1, lot)
               /\ r.transaction_type = (IF r.delta_qty > 0 THEN "BUY" ELSE "SELL")

\* C19 (amended): no order when abs(delta) < lot size; otherwise, unless the
\* call is abandoned for want of a usable price, the trade it goes on to
\* place has the total quantity abs(delta) rounded up to the lot size, is a
\* BUY when delta > 0 and a SELL when delta < 0, and every quantity sent is
\* a magnitude (positive); the accepted chunks add up to that total when no
\* submission is refused.

C19_DeltaRule ==
  \A k \in DOMAIN trades :
    LET r == trades[k].result
        lot == LotOf(Upper(trades[k].position.exchange))
        sent == {n \in DOMAIN orders : orders[n].trade = k}
    IN  MirrorCallWithDelta(k) =>
          /\ r.delta_qty = r.intended_qty_signed - r.current_qty
          /\ Abs(r.delta_qty) < lot =>
               (r.exit = "no_trade" /\ r.ret /\ r.accepted = <<>> /\ sent = {})
          /\ Abs(r.delta_qty) >= lot =>
               /\ r.exit \in {"no_ltp", "order"}
               /\ r.exit = "no_ltp" => (sent = {} /\ ~r.ret)
               /\ r.exit = "order" =>
                    /\ LeastMultiple(r.order_qty, Abs(r.delta_qty), 1, lot)
                    /\ r.transaction_type = (IF r.delta_qty > 0 THEN "BUY" ELSE "SELL")
                    /\ r.ret => SumSeq(r.accepted) = r.order_qty
                    /\ SumSeq(r.accepted) <= r.order_qty
                    /\ \A n \in sent :
                         /\ orders[n].quantity > 0
                         /\ orders[n].transaction_type = r.transaction_type

C19_Witness ==
  \E k \in DOMAIN trades :
    /\ MirrorCallWithDelta(k)
    /\ trades[k].result.exit = "order"
    /\ trades[k].result.ret
    /\ trades[k].result.delta_qty < 0
    /\ trades[k].result.current_qty > 0
    /\ trades[k].result.order_qty > Abs(trades[k].result.delta_qty)
    /\ trades[k].result.transaction_type = "SELL"
    /\ \E j \in DOMAIN trades :
         /\ trades[j].kind = "mimic"
         /\ trades[j].result.exit = "no_trade"
         /\ trades[j].result.delta_qty # 0


\* C20: when the submission of chunk k of a split trade fails, the trade is
\* reported as failed, no chunk after k is submitted for it, the failed
\* chunk is not retried within the cycle (the position gets no second call
\* in that cycle), and the chunks 1..k-1 already submitted remain placed.
ChunksOf(k) ==
  _place_market_order_recursive(trades[k].result.order_qty,
                                trades[k].result.max_qty)

OrdersOf(k) == {n \in DOMAIN orders : orders[n].trade = k}

C20_ChunkFailure ==
  \A k \in DOMAIN trades :
    LET r == trades[k].result
    IN  r.exit = "order" =>
          /\ Len(r.accepted) <= Len(ChunksOf(k))
          /\ \A m \in DOMAIN r.accepted : r.accepted[m] = ChunksOf(k)[m]
          /\ r.ret <=> Len(r.accepted) = Len(ChunksOf(k))
          /\ Cardinality(OrdersOf(k)) = Len(r.accepted)
          /\ \A n \in OrdersOf(k) :
               /\ orders[n].slice_index \in DOMAIN r.accepted
               /\ orders[n].quantity = r.accepted[orders[n].slice_index]
               /\ orders[n].account = trades[k].account
          /\ \A j \in DOMAIN trades :
               (/\ j # k
                /\ trades[j].cycle = trades[k].cycle
                /\ trades[j].account = trades[k].account)
               => ~SameKey(trades[j].position, trades[k].position)

C20_Witness ==
  \E k \in DOMAIN trades :
    /\ pc = "done"
    /\ trades[k].kind = "mimic"
    /\ trades[k].result.exit = "order"
    /\ ~trades[k].result.ret
    /\ Len(ChunksOf(k)) = 3
    /\ Len(trades[k].result.accepted) = 1
    /\ Cardinality(OrdersOf(k)) = 1


\* C21: a copy-enabled target whose total margin is unavailable (the margin
\* call fails or a field is missing or not numeric) or is <= 0 is skipped
\* for the whole cycle: no stray-close call or order and no mirror call or
\* order is made in it, and the targets after it are still processed.
SkippedVisit(v) ==
  v.total_margin = None \/ v.total_margin[1] <= 0 \/ margin[v.account] <= 0

NothingDoneIn(a) ==
  /\ ~\E k \in CycleTrades : trades[k].account = a
  /\ ~\E k \in CycleOrders : orders[k].account = a

C21_InvalidTargetMarginSkips ==
  /\ \A k \in DOMAIN CycleVisited :
       SkippedVisit(CycleVisited[k]) => NothingDoneIn(CycleVisited[k].account)
  /\ \A k \in DOMAIN CycleVisited : CycleVisited[k].account = target_accounts[k]
  /\ pc = "target" => Len(CycleVisited) = tIdx - 1
  /\ (pc = "done" /\ base_account # 0) =>
       Len(CycleVisited) = Len(target_accounts)

C21_Witness ==
  /\ pc = "done"
  /\ Len(CycleVisited) = 2
  /\ CycleVisited[1].total_margin = << -1 >>
  /\ \E i \in InstrIdx :
       /\ book[CycleVisited[1].account][i] # 0
       /\ Instruments[i].exchange \in {"NFO", "BFO"}
  /\ NothingDoneIn(CycleVisited[1].account)
  /\ \E n \in CycleOrders :
       orders[n].account = CycleVisited[2].account /\ orders[n].tag = "close"
  /\ \E n \in CycleOrders :
       orders[n].account = CycleVisited[2].account /\ orders[n].tag = "mimic"


\* C22: when the base account's total margin is unavailable or <= 0, no
\* mirror call is made and no mirror order is placed in any target in that
\* cycle, while the stray-close pass still runs for every copy-enabled
\* target with a valid margin: one close call for each of its open
\* positions that the base does not hold.
BaseMarginInvalid ==
  /\ pc \in {"target", "sync", "done"}
  /\ base_account # 0
  /\ target_accounts # <<>>
  /\ base_total_margin = None \/ margin[base_account] <= 0

\* the open NFO/BFO positions of account a under no key of the base
StraysOf(a) ==
  {i \in InstrIdx :
     /\ book[a][i] # 0
     /\ Instruments[i].exchange \in {"NFO", "BFO"}
     /\ ~\E j \in DOMAIN base_positions :
          SameKey(base_positions[j], Instruments[i])}

CloseCalls(a) ==
  {k \in CycleTrades : trades[k].account = a /\ trades[k].kind = "close"}

C22_InvalidBaseMarginOnlyCloses ==
  BaseMarginInvalid =>
    /\ ~\E k \in CycleTrades : trades[k].kind = "mimic"
    /\ ~\E n \in CycleOrders : orders[n].tag = "mimic"
    /\ \A k \in DOMAIN CycleVisited :
         LET v == CycleVisited[k]
         IN  (~SkippedVisit(v) /\ (pc # "sync" \/ k < tIdx)) =>
               /\ Cardinality(CloseCalls(v.account)) =
                    (IF v.positions_read THEN Cardinality(StraysOf(v.account)) ELSE 0)
               /\ \A i \in StraysOf(v.account) :
                    v.positions_read =>
                      \E c \in CloseCalls(v.account) :
                        SameKey(trades[c].position, Instruments[i])

C22_Witness ==
  /\ pc = "done"
  /\ BaseMarginInvalid
  /\ margin[base_account] = -1
  /\ base_positions # <<>>
  /\ Len(CycleVisited) = 2
  /\ \A k \in DOMAIN CycleVisited :
       \E n \in CycleOrders :
         orders[n].account = CycleVisited[k].account /\ orders[n].tag = "close"


\* C26: the targets are processed strictly one at a time in registry
\* (config list) order: the target list is in list order, and for targets
\* i before j in the list every call made and every order placed in target
\* i during a cycle comes before any call or order in target j.
C26_TargetsInRegistryOrder ==
  /\ \A i \in DOMAIN target_accounts, j \in DOMAIN target_accounts :
       i < j => target_accounts[i] < target_accounts[j]
  /\ \A m \in DOMAIN orders, n \in DOMAIN orders :
       (orders[m].cycle = orders[n].cycle /\ orders[m].account < orders[n].account)
         => m < n
  /\ \A m \in DOMAIN trades, n \in DOMAIN trades :
       (trades[m].cycle = trades[n].cycle /\ trades[m].account < trades[n].account)
         => m < n
  /\ pc = "sync" =>
       \A n \in CycleOrders : orders[n].account <= CurrentTarget

C26_Witness ==
  /\ pc = "done"
  /\ \E m \in CycleOrders, n \in CycleOrders :
       /\ orders[m].account < base_account
       /\ base_account < orders[n].account
       /\ m < n
  /\ \E m \in CycleOrders, n \in CycleOrders :
       /\ orders[m].account = orders[n].account
       /\ orders[m].tag = "close" /\ orders[n].tag = "mimic"


\* C28: after load_accounts_config on a non-empty account list at least one
\* account is marked base (the first account, and only it, when the file
\* marks none); the cycle uses as base the first account in list order that
\* is marked base and has a session; any other account marked base is
\* treated neither as base nor as target.
MarkedInFile(a) ==
  Upper(config[a].copy_trades) = "BASE" \/ config[a].is_base_account

MarkedBase == {a \in DOMAIN accounts : accounts[a].is_base_account}

UsableBases == {a \in MarkedBase : session[a]}

C28_BaseResolution ==
  accounts # <<>> =>
    /\ MarkedBase # {}
    /\ MarkedBase = (IF \E a \in Accounts : MarkedInFile(a)
                       THEN {a \in Accounts : MarkedInFile(a)} ELSE {1})
    /\ pc \in {"fetch", "target", "sync", "done"} =>
         /\ UsableBases = {} <=> base_account = 0
         /\ base_account # 0 =>
              /\ base_account \in UsableBases
              /\ \A a \in UsableBases : base_account <= a
         /\ \A a \in MarkedBase :
              /\ ~\E k \in DOMAIN target_accounts : target_accounts[k] = a
              /\ ~\E k \in DOMAIN visited : visited[k].account = a
              /\ ~\E k \in DOMAIN trades : trades[k].account = a
              /\ ~\E k \in DOMAIN orders : orders[k].account = a

C28_Witness ==
  /\ pc = "done"
  /\ ret
  /\ base_account = 2
  /\ MarkedBase = {1, 2, 3}
  /\ ~session[1]
  /\ Upper(config[3].copy_trades) = "YES"
  /\ session[3] /\ margin[3] > 0


\* C29: if reading the target's current position fails during the mirror
\* step (the positions call inside get_current_position_quantity raises),
\* no order is placed for that symbol in that target in this cycle.
C29_ReadFailurePlacesNoOrder ==
  \A k \in DOMAIN trades :
    (trades[k].kind = "mimic" /\ ~trades[k].read_ok) =>
      /\ trades[k].result.accepted = <<>>
      /\ ~\E n \in DOMAIN orders : orders[n].trade = k


\* C30: for every starting target quantity (any sign, lot-aligned or not),
\* after mimic_position_in_account returned success and its order (if any)
\* has fully filled, the target's quantity is nonzero, has the sign of the
\* base quantity and differs from the signed intended quantity by less
\* than one lot.
\* mirror call k found every earlier order filled, and the orders filled
\* by now are exactly those placed up to and by call k
SettledAfter(k) ==
  /\ trades[k].kind = "mimic"
  /\ trades[k].result.ret
  /\ trades[k].pending = 0
  /\ nfilled = Cardinality({n \in DOMAIN orders : orders[n].trade <= k})

ConvergedAfter(k) ==
  LET quantity == book[trades[k].account][InstrumentOf(trades[k].position)]
      intended == trades[k].result.intended_qty_signed
      lot == LotOf(Upper(trades[k].position.exchange))
  IN  /\ quantity # 0
      /\ (quantity > 0) <=> (trades[k].position.quantity > 0)
      /\ Abs(quantity - intended) < lot

C30_MirrorStepConverges ==
  \A k \in DOMAIN trades : SettledAfter(k) => ConvergedAfter(k)

\* C27: if a split trade fails after k of its chunks were submitted and
\* filled, then in the next sync cycle with unchanged base positions and
\* margins the mirror step orders only the remaining delta computed from
\* the target's actual position, and after that cycle's orders fill the
\* target is within one lot of the intended quantity.
\* mirror call j placed the first chunks of a split trade and was refused one
PartialFailure(j) ==
  /\ trades[j].kind = "mimic"
  /\ trades[j].result.exit = "order"
  /\ ~trades[j].result.ret
  /\ trades[j].result.accepted # <<>>
  /\ Len(ChunksOf(j)) > 1

\* the next mirror call for the same position, made once the chunks placed
\* before it were all filled
NextStepAfterPartial(k) ==
  /\ k > 1
  /\ PartialFailure(k - 1)
  /\ trades[k].kind = "mimic"
  /\ trades[k].account = trades[k - 1].account
  /\ SameKey(trades[k].position, trades[k - 1].position)
  /\ trades[k].pending = 0

\* what the target held of the position when call k was made
HeldAtCall(k) ==
  LET a == trades[k].account
      i == InstrumentOf(trades[k].position)
  IN  StartQty(a, i)
        + SumSigned({n \in DOMAIN orders :
                       /\ orders[n].trade < k
                       /\ orders[n].account = a
                       /\ InstrumentOf(orders[n]) = i})

OrdersRemainingDelta(k) ==
  LET r == trades[k].result
      lot == LotOf(Upper(trades[k].position.exchange))
      remaining == r.intended_qty_signed - HeldAtCall(k)
  IN  /\ r.current_qty = HeldAtCall(k)
      /\ r.delta_qty = remaining
      /\ Abs(remaining) < lot => r.accepted = <<>>
      /\ r.accepted # <<>> =>
           /\ LeastMultiple(r.order_qty, Abs(remaining), 1, lot)
           /\ r.transaction_type = (IF remaining > 0 THEN "BUY" ELSE "SELL")

FilledThrough(k) ==
  nfilled = Cardinality({n \in DOMAIN orders : orders[n].trade <= k})

WithinOneLot(k) ==
  LET quantity == book[trades[k].account][InstrumentOf(trades[k].position)]
      lot == LotOf(Upper(trades[k].position.exchange))
  IN  Abs(quantity - trades[k].result.intended_qty_signed) < lot

C27_SelfCorrection ==
  \A k \in DOMAIN trades :
    NextStepAfterPartial(k) =>
      /\ OrdersRemainingDelta(k)
      /\ (trades[k].result.ret /\ FilledThrough(k)) => WithinOneLot(k)


\* C23: in edge-triggered (BUTTON BASED) mode, once an accepted fire value
\* is observed and passes the de-duplication check, the listener attempts
\* to clear that flag cell before it invokes the sync, and a failure of the
\* clear does not prevent the sync from being invoked: the k-th sync comes
\* after the k-th clear attempt, made on the cell of the trigger it runs
\* for, whether or not that attempt succeeded.
ClearAttempted == branch \in {"cleared", "clear_failed"}

C23_ClearThenSync ==
  InButtonBranch =>
    /\ Len(clears) = Len(fired) + (IF ClearAttempted THEN 1 ELSE 0)
    /\ \A k \in DOMAIN fired :
         /\ fired[k].kind = "button"
         /\ clears[k].row = fired[k].row
    /\ branch = "detected" =>
         /\ row_num # None
         /\ IsTriggerValue(trigger_value[1])
    /\ ClearAttempted =>
         /\ clears[Len(clears)].row = row_num[1]
         /\ clears[Len(clears)].ok <=> branch = "cleared"

C23_Witness ==
  /\ InButtonBranch
  /\ branch = "synced"
  /\ Len(fired) = 1
  /\ ~clears[1].ok
  /\ flags[fired[1].row] = fired[1].value
  /\ fired[1].row = DataStartRow + 1


\* C24 (as stated): de-duplication in edge-triggered mode: a flag that is
\* still set at the same location as the last fired trigger does not invoke
\* another sync until the 10-second cooldown measured from the last fire
\* has elapsed; a flag at a different location fires immediately, at the
\* poll that finds it set.
\* two syncs in a row for the same cell are more than the cooldown apart
SameCellAfterCooldown ==
  InButtonBranch =>
    \A k \in DOMAIN fired :
      (k > 1 /\ fired[k].row = fired[k - 1].row) =>
        fired[k].time - fired[k - 1].time > TriggerCooldown

\* the loop is about to poll the sheet, and the step is not the operator's
PollStep ==
  /\ InButtonBranch
  /\ AtTopOfLoop
  /\ worksheet /\ trigger_col
  /\ flags' = flags

SetAwayFromLast ==
  \E r \in Rows : IsTriggerValue(flags[r]) /\ << r >> # last_trigger_row

ObservedAwayFromLast ==
  check_trigger.row_num # None /\ check_trigger.row_num # last_trigger_row

ObservedAtLastWithinCooldown ==
  /\ check_trigger.row_num # None
  /\ check_trigger.row_num = last_trigger_row
  /\ time_time - last_trigger_time[1] <= TriggerCooldown

AutoNeverTouchesSheet ==
  trading_mechanism = "AUTO" =>
    /\ sheet_ops = {}
    /\ clears = <<>>
    /\ ~worksheet /\ ~trigger_col
    /\ row_num = None /\ last_trigger_row = None
    /\ \A k \in DOMAIN fired : fired[k].kind \in {"startup", "boundary"}

ButtonFiresOnlyOnFlag ==
  trading_mechanism = "BUTTON BASED" =>
    /\ ~first_auto_trigger_done
    /\ last_auto_trigger_minute = None
    /\ \A k \in DOMAIN fired :
         /\ fired[k].kind = "button"
         /\ fired[k].row \in Rows
         /\ IsTriggerValue(fired[k].value)

C25_ModeFixedAndExclusive ==
  /\ [][trading_mechanism' = trading_mechanism]_vars
  /\ [](trading_mechanism \in {"AUTO", "BUTTON BASED"})
  /\ []AutoNeverTouchesSheet
  /\ []ButtonFiresOnlyOnFlag
  /\ [][(trading_mechanism = "BUTTON BASED" /\ fired' # fired) =>
          (ClearAttempted /\ IsTriggerValue(trigger_value[1]))]_vars

C25_Witness ==
  /\ trading_mechanism = "AUTO"
  /\ Len(fired) = 2
  /\ fired[2].kind = "boundary"
  /\ \A r \in Rows : IsTriggerValue(flags[r])
  /\ sheet_ops = {}

=============================================================================
